---------------------------- MODULE Spec2Model ----------------------------
(***************************************************************************)
(* Model of the eligibility and proration engine of Fiscale-Attesten:      *)
(* the age-group table builder and resolver, the Activity record, the      *)
(* activity adapter and the per-member aggregator.                         *)
(*                                                                         *)
(* Conventions.                                                            *)
(*  - A Python dict is a sequence of entries in insertion order.           *)
(*  - A datetime.date is a record [year, month, day].                      *)
(*  - A price (a Python float holding euros) is an integer number of       *)
(*    cents; round(x, 2) is rounding to a whole number of cents.           *)
(*  - Activity objects live in a heap (a sequence of records) and are      *)
(*    referred to by their index, as Python refers to them by reference.   *)
(***************************************************************************)
EXTENDS Integers, Sequences, FiniteSets, TLC

VARIABLES
    \* ---- age-group table builder and resolver ----
    ag_pc,              \* "config" | "built" | "error" ("idle" where no table is built)
    age_group_data,     \* the caller's dict, which generate_age_group_data updates in place
    first_registration_year, \* the anchor passed to generate_age_group_data
    ag_result,          \* what generate_age_group_data returned or raised
    queries,            \* the calls of determine_age_group made so far: {<<year, result>>}
    \* ---- activity adapter ----
    ad_pc,              \* "call" | "returned" ("idle" where the adapter is not called alone)
    activity,           \* the Activity object passed to adapt_activity_data_to_member
    template,           \* the value of that object when it was passed
    member,             \* the Member passed
    full_camp,          \* the flag passed
    max_age,            \* the maximum age passed
    ad_result,          \* "pending" | "activity" | "none" | "ValueError"
    \* ---- member activity aggregator ----
    heap,               \* the Activity objects: the templates first, then the copies
    weekend_data,       \* age group -> activity name -> reference to a template
    templates0,         \* the templates as read_activity_data built them
    activity_names,     \* the attended activity names passed to the last call
    calendar_year,      \* the organisation's calendar year
    all_activities,     \* the Activities the last call returned, None if it raised
    gm_result,          \* "pending" | "returned" | "KeyError" | "ValueError"
    prev_result,        \* gm_result of the call before the last one
    \* ---- a run of generate_tax_certificates ----
    run_pc,             \* the step the run is at ("idle" where there is no run)
    user_config,        \* the configuration loaded by load_config
    presence_data,      \* the presence lists of the members still to be handled
    certificates,       \* the Activities of the certificates saved so far
    run_error,          \* the error that ended the run: its step and its kind
    \* ---- the constructor of Activity ----
    arguments,          \* the start_date, end_date and total_price passed
    new_activity,       \* the Activity constructed, None if there is none
    new_result,         \* "pending" | "constructed" | "ZeroDivisionError" ("idle")
    warnings            \* the warnings the constructor logged

ag_vars == <<ag_pc, age_group_data, first_registration_year, ag_result, queries>>
ad_vars == <<ad_pc, activity, template, member, full_camp, max_age, ad_result>>
gm_vars == <<heap, weekend_data, templates0, activity_names, calendar_year,
             all_activities, gm_result, prev_result>>
run_vars == <<run_pc, user_config, presence_data, certificates, run_error>>
new_vars == <<arguments, new_activity, new_result, warnings>>
vars == <<ag_vars, ad_vars, gm_vars, run_vars, new_vars>>

-----------------------------------------------------------------------------
(* Bounds of the model. *)

MaxGroups == 3          \* age groups in a configuration
MaxNrOfYears == 3       \* largest nr_of_years of a group
MaxQueries == 2         \* calls of determine_age_group recorded per table
MaxNights == 3          \* nights between a template's start_date and end_date
MaxMembers == 2         \* members with a row in the presence sheet of a run

(* Constants of the program. *)

DiscountDivisor == 3    \* total_price / 3.0 for a member with a discount
PrecampDays == 2        \* timedelta(days=2): the days a precamp takes

-----------------------------------------------------------------------------
(* Small helpers. *)

None == "None"

RECURSIVE SumSeq(_)
SumSeq(s) == IF s = <<>> THEN 0 ELSE s[1] + SumSeq(Tail(s))

-----------------------------------------------------------------------------
(* Age-group table builder: main.py generate_age_group_data.               *)

\* The group names of a configuration, youngest first.
GroupNames == <<"kapoenen", "welpen", "jonggivers", "givers", "jins">>

\* The values a group's "nr_of_years" can hold in a configuration:
\* kind "int" with the integer, for every instance of int (a bool is one and
\* is the integer it counts as: False 0, True 1), "missing" (no such key) and
\* "nonint" (a value that is no instance of int: a string, a float, None).
NrValues ==
    [kind : {"int"}, nr : (-1)..MaxNrOfYears]
        \cup [kind : {"missing", "nonint"}, nr : {0}]

\* One entry of the configuration dict, before generate_age_group_data ran.
ConfigEntry(name, v) ==
    [name |-> name, kind |-> v.kind, nr_of_years |-> v.nr,
     has_first |-> FALSE, first_registration_year |-> 0]

\* The configurations: up to MaxGroups groups, keys distinct, in declaration order.
Configs ==
    UNION { { [i \in 1..n |-> ConfigEntry(GroupNames[i], f[i])] :
                f \in [1..n -> NrValues] } : n \in 0..MaxGroups }

\* The anchor years of a configuration.
AnchorYears == {2015, 2016}

\* A plausible slip: the anchor is decreased before it is written into the group.
AssignedYearAfterDecrease(year, nr_of_years) == year - nr_of_years

\* The year written into a group: the anchor as it stands when the group is
\* reached, before the group's own nr_of_years is taken off.
AssignedYear(year, nr_of_years) == year

\* The anchor handed on to the next group.
DecreasedYear(year, nr_of_years) == year - nr_of_years

\* The loop of generate_age_group_data from group i on: the dict as the loop
\* leaves it and how the function ends. The dict is updated in place, so the
\* groups before a failing one keep the key written into them.
RECURSIVE AgeGroupLoop(_, _, _)
AgeGroupLoop(data, i, year) ==
    IF i > Len(data) THEN [data |-> data, outcome |-> "returned"]
    ELSE IF data[i].kind = "missing" THEN [data |-> data, outcome |-> "KeyError"]
    ELSE IF data[i].kind # "int" \/ data[i].nr_of_years <= 0
        THEN [data |-> data, outcome |-> "ValueError"]
    ELSE AgeGroupLoop(
            [data EXCEPT ![i].has_first = TRUE,
                         ![i].first_registration_year =
                             AssignedYear(year, data[i].nr_of_years)],
            i + 1,
            DecreasedYear(year, data[i].nr_of_years))

\* A plausible slip: the checks of nr_of_years left out, a missing value
\* counting as 0.
generate_age_group_data_unchecked(data, year) ==
    [data |-> [k \in 1..Len(data) |->
                  [data[k] EXCEPT
                      !.has_first = TRUE,
                      !.first_registration_year =
                          year - SumSeq([j \in 1..(k - 1) |-> data[j].nr_of_years])]],
     outcome |-> "returned"]

generate_age_group_data(data, year) == AgeGroupLoop(data, 1, year)

-----------------------------------------------------------------------------
(* Age-group resolver: utils.py determine_age_group.                       *)

\* A plausible slip: a strict comparison, which sends a registration year equal
\* to a group's threshold to the next younger group.
QualifiesStrictly(registration_year, entry) ==
    registration_year < entry.first_registration_year

\* A plausible slip: the comparison turned around.
QualifiesReversed(registration_year, entry) ==
    registration_year >= entry.first_registration_year

\* The test of one group.
Qualifies(registration_year, entry) ==
    registration_year <= entry.first_registration_year

\* The scan from entry i down to the first: reverse declaration order.
RECURSIVE DetermineScan(_, _, _)
DetermineScan(data, i, registration_year) ==
    IF i < 1 THEN 0
    ELSE IF Qualifies(registration_year, data[i]) THEN i
    ELSE DetermineScan(data, i - 1, registration_year)

\* A plausible slip: the keys are walked in reverse but the key returned is
\* read from the forward list at the loop counter.
determine_age_group_mirrored(data, registration_year) ==
    LET i == DetermineScan(data, Len(data), registration_year)
    IN  IF i = 0 THEN None ELSE data[Len(data) + 1 - i].name

determine_age_group(data, registration_year) ==
    LET i == DetermineScan(data, Len(data), registration_year)
    IN  IF i = 0 THEN None ELSE data[i].name

\* The registration years the resolver is asked about.
RegistrationYears == (2015 - MaxGroups * MaxNrOfYears) .. 2017

-----------------------------------------------------------------------------
(* The age-group specification: a configuration is built into a table, and  *)
(* the table is then consulted.                                             *)

AgInit ==
    /\ ag_pc = "config"
    /\ age_group_data \in Configs
    /\ first_registration_year \in AnchorYears
    /\ ag_result = "pending"
    /\ queries = {}
    /\ ad_pc = "idle"
    /\ activity = None
    /\ template = None
    /\ member = None
    /\ full_camp = TRUE
    /\ max_age = 0
    /\ ad_result = "pending"
    /\ heap = <<>>
    /\ weekend_data = <<>>
    /\ templates0 = <<>>
    /\ activity_names = <<>>
    /\ calendar_year = 0
    /\ all_activities = None
    /\ gm_result = "pending"
    /\ prev_result = "pending"
    /\ run_pc = "idle"
    /\ user_config = None
    /\ presence_data = <<>>
    /\ certificates = <<>>
    /\ run_error = None
    /\ arguments = None
    /\ new_activity = None
    /\ new_result = "idle"
    /\ warnings = {}

GenerateAgeGroupData ==
    /\ ag_pc = "config"
    /\ LET r == generate_age_group_data(age_group_data, first_registration_year)
       IN  /\ age_group_data' = r.data
           /\ ag_result' = r.outcome
           /\ ag_pc' = IF r.outcome = "returned" THEN "built" ELSE "error"
    /\ UNCHANGED <<first_registration_year, queries, ad_vars, gm_vars, run_vars,
                   new_vars>>

DetermineAgeGroup ==
    /\ ag_pc = "built"
    /\ Cardinality(queries) < MaxQueries
    /\ \E y \in RegistrationYears :
          queries' = queries \cup {<<y, determine_age_group(age_group_data, y)>>}
    /\ UNCHANGED <<ag_pc, age_group_data, first_registration_year, ag_result,
                   ad_vars, gm_vars, run_vars, new_vars>>

AgNext == GenerateAgeGroupData \/ DetermineAgeGroup

SpecAgeGroups == AgInit /\ [][AgNext]_vars

-----------------------------------------------------------------------------
(* Dates: datetime.date as the program uses it.                            *)

Date(y, m, d) == [year |-> y, month |-> m, day |-> d]

IsLeap(y) == (y % 4 = 0 /\ y % 100 # 0) \/ y % 400 = 0

DaysInMonth(y, m) ==
    IF m = 2 THEN (IF IsLeap(y) THEN 29 ELSE 28)
    ELSE IF m \in {4, 6, 9, 11} THEN 30 ELSE 31

\* date(y, m, d) raises ValueError unless the day exists.
ValidDate(y, m, d) == m \in 1..12 /\ d >= 1 /\ d <= DaysInMonth(y, m)

DaysBeforeYear(y) ==
    (y - 1) * 365 + ((y - 1) \div 4) - ((y - 1) \div 100) + ((y - 1) \div 400)

DaysBeforeMonth(y, m) == SumSeq([k \in 1..(m - 1) |-> DaysInMonth(y, k)])

\* date.toordinal(): the days since 0001-01-01, that day being 1.
ToOrdinal(d) == DaysBeforeYear(d.year) + DaysBeforeMonth(d.year, d.month) + d.day

\* (b - a).days
DaysBetween(a, b) == ToOrdinal(b) - ToOrdinal(a)

NextDay(d) ==
    IF d.day < DaysInMonth(d.year, d.month) THEN Date(d.year, d.month, d.day + 1)
    ELSE IF d.month < 12 THEN Date(d.year, d.month + 1, 1)
    ELSE Date(d.year + 1, 1, 1)

\* d + timedelta(days=n), n >= 0
RECURSIVE AddDays(_, _)
AddDays(d, n) == IF n = 0 THEN d ELSE AddDays(NextDay(d), n - 1)

-----------------------------------------------------------------------------
(* Prices. A price is a whole number of cents; round(n / d, 2) rounds the   *)
(* quotient to the nearest cent, a half going to the even cent as Python's  *)
(* round does on a value it can represent.                                  *)

RoundDiv(n, d) ==
    LET nn == IF d < 0 THEN -n ELSE n
        dd == IF d < 0 THEN -d ELSE d
        q == nn \div dd
        r == nn - q * dd
    IN  IF 2 * r < dd THEN q
        ELSE IF 2 * r > dd THEN q + 1
        ELSE IF q % 2 = 0 THEN q ELSE q + 1

-----------------------------------------------------------------------------
(* The Activity record: data_classes.py Activity.                          *)

\* Activity.__init__ for dates with end_date - start_date # -1 day (a day
\* count of 0 raises ZeroDivisionError and leaves no object).
ActivityInit(start_date, end_date, total_price) ==
    LET number_of_days == DaysBetween(start_date, end_date) + 1
    IN  [start_date |-> start_date,
         end_date |-> end_date,
         number_of_days |-> number_of_days,
         price_per_day |-> RoundDiv(total_price, number_of_days),
         total_price |-> total_price]

\* Activity.recalculate_price_and_days
recalculate_price_and_days(a) ==
    LET number_of_days == DaysBetween(a.start_date, a.end_date) + 1
    IN  [a EXCEPT !.number_of_days = number_of_days,
                  !.total_price = a.price_per_day * number_of_days]

-----------------------------------------------------------------------------
(* utils.py is_member_too_old.                                             *)

\* A plausible slip: the age is the difference of the years, whether or not
\* the birthday has come in the reference year.
is_member_too_old_by_year(date_of_birth, reference_date, maximum) ==
    reference_date.year - date_of_birth.year >= maximum

\* A plausible slip: a member who has just reached the maximum age still passes.
is_member_too_old_strictly(date_of_birth, reference_date, maximum) ==
    LET before_birthday ==
            \/ reference_date.month < date_of_birth.month
            \/ /\ reference_date.month = date_of_birth.month
               /\ reference_date.day < date_of_birth.day
        age == reference_date.year - date_of_birth.year
                 - (IF before_birthday THEN 1 ELSE 0)
    IN  age > maximum

is_member_too_old(date_of_birth, reference_date, maximum) ==
    LET before_birthday ==
            \/ reference_date.month < date_of_birth.month
            \/ /\ reference_date.month = date_of_birth.month
               /\ reference_date.day < date_of_birth.day
        age == reference_date.year - date_of_birth.year
                 - (IF before_birthday THEN 1 ELSE 0)
    IN  age >= maximum

-----------------------------------------------------------------------------
(* The Activity Adapter: main.py adapt_activity_data_to_member. It works on  *)
(* the object it is passed; the result names the outcome and the object as   *)
(* the call leaves it.                                                       *)

\* lines 170-171: the discount.
ApplyDiscount(a, m) ==
    IF m.discount
        THEN [a EXCEPT !.total_price = RoundDiv(a.total_price, DiscountDivisor)]
        ELSE a

\* A plausible slip: the precamp counted from the start date itself, so the
\* start moves one day less.
ShiftStartInclusive(a) ==
    [a EXCEPT !.start_date = AddDays(a.start_date, PrecampDays - 1)]

\* line 174: the start date moved past the precamp.
ShiftStart(a) == [a EXCEPT !.start_date = AddDays(a.start_date, PrecampDays)]

\* lines 183-191: the end-date check and the truncation.
AdaptEnd(a, m, maximum) ==
    IF is_member_too_old(m.date_of_birth, a.end_date, maximum)
    THEN IF ValidDate(a.end_date.year, m.date_of_birth.month,
                      m.date_of_birth.day - 1)
         THEN [outcome |-> "activity",
               activity |-> recalculate_price_and_days(
                   [a EXCEPT !.end_date = Date(a.end_date.year,
                                               m.date_of_birth.month,
                                               m.date_of_birth.day - 1)])]
         ELSE [outcome |-> "ValueError", activity |-> a]
    ELSE [outcome |-> "activity", activity |-> a]

\* lines 172-180: the precamp shift, its age check and the recalculation.
AdaptStart(a, m, full, maximum) ==
    IF full THEN AdaptEnd(a, m, maximum)
    ELSE LET shifted == ShiftStart(a)
         IN  IF is_member_too_old(m.date_of_birth, shifted.start_date, maximum)
             THEN [outcome |-> "none", activity |-> shifted]
             ELSE AdaptEnd(recalculate_price_and_days(shifted), m, maximum)

adapt_activity_data_to_member(a, m, full, maximum) ==
    IF is_member_too_old(m.date_of_birth, a.start_date, maximum)
    THEN [outcome |-> "none", activity |-> a]
    ELSE AdaptStart(ApplyDiscount(a, m), m, full, maximum)

-----------------------------------------------------------------------------
(* The adapter specification: one call of adapt_activity_data_to_member on  *)
(* an Activity built by the constructor.                                    *)

\* The calls of test_data.py: (start_date, end_date, total_price in cents).
TestTemplates ==
    { <<Date(2024, 2, 23), Date(2024, 2, 25), 5000>>,
      <<Date(2024, 4, 26), Date(2024, 4, 28), 4000>>,
      <<Date(2024, 7, 3), Date(2024, 7, 15), 15600>> }

StartDates ==
    { Date(2024, 2, 27), Date(2024, 4, 26), Date(2024, 6, 29),
      Date(2024, 7, 3), Date(2024, 12, 30) }

Prices == {4000, 5000, 15600}

Templates ==
    TestTemplates
      \cup { <<s, AddDays(s, n), p>> : s \in StartDates, n \in 0..MaxNights, p \in Prices }

BirthDates ==
    { Date(y, md[1], md[2]) :
        y \in {2010, 2011},
        md \in { <<7, 7>>, <<7, 5>>, <<7, 1>>, <<1, 1>>, <<1, 2>>, <<12, 31>> } }

Members ==
    [date_of_birth : BirthDates, registration_year : {2011}, discount : BOOLEAN]

MaxAges == {13, 14}

AdInit ==
    /\ ad_pc = "call"
    /\ \E t \in Templates :
          /\ activity = ActivityInit(t[1], t[2], t[3])
          /\ template = ActivityInit(t[1], t[2], t[3])
    /\ member \in Members
    /\ full_camp \in BOOLEAN
    /\ max_age \in MaxAges
    /\ ad_result = "pending"
    /\ ag_pc = "idle"
    /\ age_group_data = <<>>
    /\ first_registration_year = 0
    /\ ag_result = "pending"
    /\ queries = {}
    /\ heap = <<>>
    /\ weekend_data = <<>>
    /\ templates0 = <<>>
    /\ activity_names = <<>>
    /\ calendar_year = 0
    /\ all_activities = None
    /\ gm_result = "pending"
    /\ prev_result = "pending"
    /\ run_pc = "idle"
    /\ user_config = None
    /\ presence_data = <<>>
    /\ certificates = <<>>
    /\ run_error = None
    /\ arguments = None
    /\ new_activity = None
    /\ new_result = "idle"
    /\ warnings = {}

AdaptActivityDataToMember ==
    /\ ad_pc = "call"
    /\ LET r == adapt_activity_data_to_member(activity, member, full_camp, max_age)
       IN  /\ activity' = r.activity
           /\ ad_result' = r.outcome
    /\ ad_pc' = "returned"
    /\ UNCHANGED <<template, member, full_camp, max_age, ag_vars, gm_vars, run_vars,
                   new_vars>>

AdNext == AdaptActivityDataToMember

SpecAdapter == AdInit /\ [][AdNext]_vars

-----------------------------------------------------------------------------
(* The constructor specification: one call of Activity(start_date,          *)
(* end_date, total_price) on dates in either order.                         *)

\* Activity(...): data_classes.py 48-64 as a whole. The warning for the dates
\* is logged before the division, the one for the price after it; a day
\* count of 0 makes the division raise and leaves no object.
Activity(start_date, end_date, total_price) ==
    LET number_of_days == DaysBetween(start_date, end_date) + 1
        date_warning ==
            IF DaysBetween(start_date, end_date) < 0
                THEN {"start date is after end date"} ELSE {}
        price_warning ==
            IF total_price < 0 THEN {"total price is negative"} ELSE {}
    IN  IF number_of_days = 0
            THEN [outcome |-> "ZeroDivisionError", activity |-> None,
                  warnings |-> date_warning]
            ELSE [outcome |-> "constructed",
                  activity |-> ActivityInit(start_date, end_date, total_price),
                  warnings |-> date_warning \cup price_warning]

\* The dates passed to the constructor: the days around the end of February
\* of a leap year and around the end of the year.
ConstructorDates ==
    { AddDays(d, n) : d \in {Date(2024, 2, 27), Date(2024, 12, 30)},
                      n \in 0..MaxNights }

\* The prices passed to the constructor, a negative one among them.
ConstructorPrices == Prices \cup {-1000}

NewInit ==
    /\ arguments \in ConstructorDates \X ConstructorDates \X ConstructorPrices
    /\ new_activity = None
    /\ new_result = "pending"
    /\ warnings = {}
    /\ ag_pc = "idle"
    /\ age_group_data = <<>>
    /\ first_registration_year = 0
    /\ ag_result = "pending"
    /\ queries = {}
    /\ ad_pc = "idle"
    /\ activity = None
    /\ template = None
    /\ member = None
    /\ full_camp = TRUE
    /\ max_age = 0
    /\ ad_result = "pending"
    /\ heap = <<>>
    /\ weekend_data = <<>>
    /\ templates0 = <<>>
    /\ activity_names = <<>>
    /\ calendar_year = 0
    /\ all_activities = None
    /\ gm_result = "pending"
    /\ prev_result = "pending"
    /\ run_pc = "idle"
    /\ user_config = None
    /\ presence_data = <<>>
    /\ certificates = <<>>
    /\ run_error = None

NewActivity ==
    /\ new_result = "pending"
    /\ LET r == Activity(arguments[1], arguments[2], arguments[3])
       IN  /\ new_activity' = r.activity
           /\ new_result' = r.outcome
           /\ warnings' = r.warnings
    /\ UNCHANGED <<arguments, ag_vars, ad_vars, gm_vars, run_vars>>

NewNext == NewActivity

SpecActivity == NewInit /\ [][NewNext]_vars

-----------------------------------------------------------------------------
(* Activity names. The code reads three things off a name: whether it       *)
(* contains the label "{y-1}/{y}", whether it contains "{y}/{y+1}" and      *)
(* whether it contains "kamp". A name is the run of years it spells,        *)
(* joined by "/", and whether the word "kamp" is in it.                     *)

ActivityName(kamp, years) == [kamp |-> kamp, years |-> years]

\* f"{a}/{b}" in name
HasYearLabel(name, a, b) ==
    \E i \in 1..(Len(name.years) - 1) :
        name.years[i] = a /\ name.years[i + 1] = b

-----------------------------------------------------------------------------
(* WeekendData: csv_import.py read_activity_data. One Activity per age      *)
(* group and activity column, built by the constructor; a cell left empty   *)
(* leaves the key out.                                                      *)

\* The activity columns of the sheet: name, start_date, end_date, price.
Columns ==
    << [name |-> ActivityName(FALSE, <<2023, 2024>>),
        start_date |-> Date(2024, 2, 23), end_date |-> Date(2024, 2, 25),
        price |-> 5000],
       [name |-> ActivityName(TRUE, <<2023, 2024>>),
        start_date |-> Date(2024, 7, 3), end_date |-> Date(2024, 7, 15),
        price |-> 15600],
       [name |-> ActivityName(FALSE, <<2024, 2025>>),
        start_date |-> Date(2024, 12, 30), end_date |-> Date(2025, 1, 2),
        price |-> 4000],
       [name |-> ActivityName(FALSE, <<>>),
        start_date |-> Date(2024, 4, 26), end_date |-> Date(2024, 4, 28),
        price |-> 4000] >>

\* The age groups with a row in the sheet.
SheetGroups == <<"kapoenen", "welpen", "jonggivers", "givers">>

\* The cells of the sheet, row by row: <<group, column>>.
Cells ==
    [k \in 1..(Len(SheetGroups) * Len(Columns)) |->
        <<((k - 1) \div Len(Columns)) + 1, ((k - 1) % Len(Columns)) + 1>>]

\* The price of a column for a group: older groups pay more.
CellPrice(g, c) == Columns[c].price + 1000 * (g - 1)

\* The cells that hold data, given the empty ones.
FilledCells(empty) == SelectSeq(Cells, LAMBDA x : x \notin empty)

\* The Activity objects read_activity_data builds, in the order it builds them.
ReadTemplates(empty) ==
    LET filled == FilledCells(empty)
    IN  [k \in 1..Len(filled) |->
            ActivityInit(Columns[filled[k][2]].start_date,
                         Columns[filled[k][2]].end_date,
                         CellPrice(filled[k][1], filled[k][2]))]

\* The dict read_activity_data returns: group -> name -> the object built.
ReadActivityData(empty) ==
    LET filled == FilledCells(empty)
    IN  [g \in {SheetGroups[i] : i \in 1..Len(SheetGroups)} |->
            LET row == CHOOSE i \in 1..Len(SheetGroups) : SheetGroups[i] = g
                cols == {c \in 1..Len(Columns) : <<row, c>> \notin empty}
            IN  [n \in {Columns[c].name : c \in cols} |->
                    CHOOSE k \in 1..Len(filled) :
                        /\ filled[k][1] = row
                        /\ Columns[filled[k][2]].name = n]]

\* The sheets: complete, or with the first cell of the jonggivers left empty.
EmptyCellSets == { {}, {<<3, 1>>} }

-----------------------------------------------------------------------------
(* Activities: data_classes.py Activities.                                 *)

\* Activities.__init__
NewActivities == [list |-> <<>>, total |-> 0]

\* A plausible slip: the total is set to the last price instead of added to.
add_activity_overwriting(acts, h, ref) ==
    [list |-> Append(acts.list, ref), total |-> h[ref].total_price]

\* Activities.add_activity
add_activity(acts, h, ref) ==
    [list |-> Append(acts.list, ref), total |-> acts.total + h[ref].total_price]

-----------------------------------------------------------------------------
(* The Member Activity Aggregator: main.py generate_activities_for_member. *)

\* A plausible slip: the template itself is handed to the adapter.
deepcopy_shared(h, ref) == [heap |-> h, ref |-> ref]

\* copy.deepcopy of an Activity: a new object with the same field values.
deepcopy(h, ref) == [heap |-> Append(h, h[ref]), ref |-> Len(h) + 1]

\* A plausible slip: the two registration years the wrong way round.
AgeGroupOfSwapped(name, m, year, table) ==
    IF HasYearLabel(name, year - 1, year)
        THEN determine_age_group(table, m.registration_year - 1)
    ELSE IF HasYearLabel(name, year, year + 1)
        THEN determine_age_group(table, m.registration_year)
    ELSE ""

\* lines 233-241: the age group of an activity name.
AgeGroupOf(name, m, year, table) ==
    IF HasYearLabel(name, year - 1, year)
        THEN determine_age_group(table, m.registration_year)
    ELSE IF HasYearLabel(name, year, year + 1)
        THEN determine_age_group(table, m.registration_year - 1)
    ELSE ""

\* A plausible slip: the test of the registration year before left out, so
\* every jonggiver and giver misses the precamp.
FullCampBySeniorGroup(name, age_group, m, table) ==
    ~ (name.kamp /\ age_group \in {"jonggivers", "givers"})

\* lines 249-256: the precamp rule.
FullCamp(name, age_group, m, table) ==
    ~ (/\ name.kamp
       /\ age_group \in {"jonggivers", "givers"}
       /\ age_group = determine_age_group(table, m.registration_year - 1))

\* The loop of generate_activities_for_member from the i-th name on: how the
\* call ends, the heap as it leaves it and the Activities collected.
RECURSIVE ActivitiesLoop(_, _, _, _, _, _, _, _)
ActivitiesLoop(i, h, acts, m, names, year, table, wd) ==
    IF i > Len(names) THEN [outcome |-> "returned", heap |-> h, activities |-> acts]
    ELSE
    LET name == names[i]
        age_group == AgeGroupOf(name, m, year, table)
    IN  IF age_group \in {"", None}
            THEN [outcome |-> "ValueError", heap |-> h, activities |-> None]
        ELSE IF age_group \notin DOMAIN wd.data
            THEN [outcome |-> "KeyError", heap |-> h, activities |-> None]
        ELSE IF name \notin DOMAIN wd.data[age_group]
            THEN [outcome |-> "KeyError", heap |-> h, activities |-> None]
        ELSE
        LET copy == deepcopy(h, wd.data[age_group][name])
            r == adapt_activity_data_to_member(
                    copy.heap[copy.ref], m,
                    FullCamp(name, age_group, m, table), wd.max_age)
            h2 == [copy.heap EXCEPT ![copy.ref] = r.activity]
        IN  IF r.outcome = "ValueError"
                THEN [outcome |-> "ValueError", heap |-> h2, activities |-> None]
            ELSE IF r.outcome = "activity"
                THEN ActivitiesLoop(i + 1, h2, add_activity(acts, h2, copy.ref),
                                    m, names, year, table, wd)
            ELSE ActivitiesLoop(i + 1, h2, acts, m, names, year, table, wd)

\* A plausible slip: an activity the member is not eligible for is reported as
\* an error instead of being left out.
generate_activities_for_member_raising(h, m, names, year, table, data, maximum) ==
    LET r == ActivitiesLoop(1, h, NewActivities, m, names, year, table,
                            [data |-> data, max_age |-> maximum])
    IN  IF r.outcome = "returned" /\ Len(r.heap) - Len(h) > Len(r.activities.list)
            THEN [outcome |-> "ValueError", heap |-> r.heap, activities |-> None]
            ELSE r

\* A plausible slip: a name without a year label or without a template is
\* skipped (continue) instead of raising.
generate_activities_for_member_skipping(h, m, names, year, table, data, maximum) ==
    LET known(name) ==
            LET g == AgeGroupOf(name, m, year, table)
            IN  \/ g = None
                \/ g # "" /\ g \in DOMAIN data /\ name \in DOMAIN data[g]
    IN  ActivitiesLoop(1, h, NewActivities, m, SelectSeq(names, known), year,
                       table, [data |-> data, max_age |-> maximum])

\* A plausible slip: the handler of ValueError returns what was collected so
\* far instead of raising again.
generate_activities_for_member_partial(h, m, names, year, table, data, maximum) ==
    LET wd == [data |-> data, max_age |-> maximum]
        run(k) == ActivitiesLoop(1, h, NewActivities, m, SubSeq(names, 1, k),
                                 year, table, wd)
        full == run(Len(names))
    IN  IF full.outcome # "ValueError" THEN full
        ELSE LET k == CHOOSE n \in 1..Len(names) :
                        /\ run(n).outcome # "returned"
                        /\ \A j \in 1..(n - 1) : run(j).outcome = "returned"
             IN  [outcome |-> "returned", heap |-> full.heap,
                  activities |-> run(k - 1).activities]

generate_activities_for_member(h, m, names, year, table, data, maximum) ==
    ActivitiesLoop(1, h, NewActivities, m, names, year, table,
                   [data |-> data, max_age |-> maximum])

-----------------------------------------------------------------------------
(* The aggregator specification: the table and the sheet are read once and   *)
(* generate_activities_for_member is then called for one member after        *)
(* another, each with the names of the activities the member attended.       *)

\* The age-group configuration of the aggregator: the four groups of the
\* sheet, three years each.
SheetConfig ==
    [i \in 1..Len(SheetGroups) |->
        ConfigEntry(SheetGroups[i], [kind |-> "int", nr |-> 3])]

\* The members met by the aggregator.
SheetMembers ==
    { [date_of_birth |-> p[1], discount |-> p[2], registration_year |-> y] :
        p \in { <<Date(2010, 7, 7), FALSE>>, <<Date(2010, 7, 5), TRUE>>,
                <<Date(2011, 1, 1), FALSE>>, <<Date(2011, 1, 1), TRUE>> },
        y \in {2014, 2015, 2017, 2020, 2024} }

\* The names of the columns in S, in column order.
AttendedNames(S) ==
    LET attended == SelectSeq([k \in 1..Len(Columns) |-> k], LAMBDA k : k \in S)
    IN  [j \in 1..Len(attended) |-> Columns[attended[j]].name]

\* The presence lists of a presence sheet whose columns are not in date order.
OutOfOrderLists ==
    { <<Columns[3].name, Columns[1].name>>,
      <<Columns[3].name, Columns[2].name, Columns[1].name>> }

\* The presence lists: the columns a member attended, in the order of the
\* columns of the presence sheet.
PresenceLists ==
    { AttendedNames(S) : S \in SUBSET (1..Len(Columns)) } \cup OutOfOrderLists

GmInit ==
    /\ age_group_data = generate_age_group_data(SheetConfig, 2023).data
    /\ ag_pc = "built"
    /\ first_registration_year = 2023
    /\ ag_result = "returned"
    /\ queries = {}
    /\ \E empty \in EmptyCellSets :
          /\ heap = ReadTemplates(empty)
          /\ templates0 = ReadTemplates(empty)
          /\ weekend_data = ReadActivityData(empty)
    /\ max_age = 14
    /\ calendar_year = 2024
    /\ member = None
    /\ activity_names = <<>>
    /\ all_activities = None
    /\ gm_result = "pending"
    /\ prev_result = "pending"
    /\ ad_pc = "idle"
    /\ activity = None
    /\ template = None
    /\ full_camp = TRUE
    /\ ad_result = "pending"
    /\ run_pc = "idle"
    /\ user_config = None
    /\ presence_data = <<>>
    /\ certificates = <<>>
    /\ run_error = None
    /\ arguments = None
    /\ new_activity = None
    /\ new_result = "idle"
    /\ warnings = {}

\* One call. The objects of the call before are no longer referred to by
\* anything, so the call starts from the templates alone.
GenerateActivitiesForMember ==
    \E m \in SheetMembers, names \in PresenceLists :
        \E r \in { generate_activities_for_member(
                        SubSeq(heap, 1, Len(templates0)), m, names, calendar_year,
                        age_group_data, weekend_data, max_age) } :
            /\ member' = m
            /\ activity_names' = names
            /\ heap' = r.heap
            /\ all_activities' = r.activities
            /\ gm_result' = r.outcome
            /\ prev_result' = gm_result
            /\ UNCHANGED <<ag_vars, weekend_data, templates0, calendar_year,
                           max_age, ad_pc, activity, template, full_camp, ad_result,
                           run_vars, new_vars>>

Next == GenerateActivitiesForMember

Spec == GmInit /\ [][Next]_vars

-----------------------------------------------------------------------------
(* A run: main.py generate_tax_certificates, step by step. The configuration *)
(* is loaded, the activity sheet is read, the age-group table is built, the  *)
(* presence sheet is read and the members are then handled one after         *)
(* another; an exception at any step ends the run.                           *)

\* The configurations of "takken": the four groups of the sheet with three
\* years each, or with one group's nr_of_years missing, not an int or 0.
RunConfigs ==
    {SheetConfig}
      \cup { [SheetConfig EXCEPT ![i] = ConfigEntry(SheetGroups[i], v)] :
                i \in 1..Len(SheetGroups),
                v \in { [kind |-> "missing", nr |-> 0],
                        [kind |-> "nonint", nr |-> 0],
                        [kind |-> "int", nr |-> 0] } }

\* The key of user_config that is missing, "none" when all are there.
ConfigKeys ==
    {"none", "tax_certificate", "csv_files", "organisation", "calendar_year",
     "next_serial_number"}

\* What load_config returns.
UserConfigs ==
    [takken : RunConfigs,
     first_registration_year : {2010, 2023},
     max_age : {14, 25},
     calendar_year : {2024},
     missing : ConfigKeys]

\* The presence lists of a run.
RunPresenceLists ==
    { <<Columns[3].name>>,
      <<Columns[1].name, Columns[2].name>>,
      <<Columns[1].name, Columns[4].name>> }

\* The presence sheets: the lists of up to MaxMembers members, in row order.
PresenceSheets ==
    UNION { [1..n -> RunPresenceLists] : n \in 0..MaxMembers }

\* lines 345-349: the member every certificate is made for.
FixedMember ==
    [date_of_birth |-> Date(2000, 1, 1), registration_year |-> 2011,
     discount |-> FALSE]

\* A plausible slip: the loop goes on to the next member.
RemainingWithoutBreak(members) == Tail(members)

\* line 380: break. No member is handled after the first certificate.
RemainingAfterCertificate(members) == <<>>

\* An exception leaves generate_tax_certificates.
Abort(step, kind) ==
    /\ run_pc' = "aborted"
    /\ run_error' = [step |-> step, kind |-> kind]

RunInit ==
    /\ run_pc = "start"
    /\ user_config = None
    /\ presence_data = <<>>
    /\ certificates = <<>>
    /\ run_error = None
    /\ arguments = None
    /\ new_activity = None
    /\ new_result = "idle"
    /\ warnings = {}
    /\ ag_pc = "idle"
    /\ age_group_data = <<>>
    /\ first_registration_year = 0
    /\ ag_result = "pending"
    /\ queries = {}
    /\ ad_pc = "idle"
    /\ activity = None
    /\ template = None
    /\ member = None
    /\ full_camp = TRUE
    /\ max_age = 0
    /\ ad_result = "pending"
    /\ heap = <<>>
    /\ weekend_data = <<>>
    /\ templates0 = <<>>
    /\ activity_names = <<>>
    /\ calendar_year = 0
    /\ all_activities = None
    /\ gm_result = "pending"
    /\ prev_result = "pending"

\* lines 302-309: the configuration and the template of the certificate.
RunLoadConfig ==
    /\ run_pc = "start"
    /\ \E cfg \in UserConfigs :
          /\ user_config' = cfg
          /\ IF cfg.missing = "tax_certificate"
                THEN Abort("config", "KeyError") /\ UNCHANGED max_age
                ELSE /\ max_age' = cfg.max_age
                     /\ run_pc' = "activities"
                     /\ UNCHANGED run_error
    /\ UNCHANGED <<ag_vars, ad_pc, activity, template, member, full_camp,
                   ad_result, gm_vars, presence_data, certificates,
                   new_vars>>

\* line 315: the activity sheet.
RunReadActivityData ==
    /\ run_pc = "activities"
    /\ IF user_config.missing = "csv_files"
          THEN /\ Abort("activities", "KeyError")
               /\ UNCHANGED <<heap, templates0, weekend_data>>
          ELSE /\ \E empty \in EmptyCellSets :
                     /\ heap' = ReadTemplates(empty)
                     /\ templates0' = ReadTemplates(empty)
                     /\ weekend_data' = ReadActivityData(empty)
               /\ run_pc' = "age_groups"
               /\ UNCHANGED run_error
    /\ UNCHANGED <<ag_vars, ad_vars, activity_names, calendar_year,
                   all_activities, gm_result, prev_result, user_config,
                   presence_data, certificates, new_vars>>

\* lines 319-325: the age-group table and the calendar year. The table is
\* built in the dict that user_config holds.
RunGenerateAgeGroupData ==
    /\ run_pc = "age_groups"
    /\ IF user_config.missing = "organisation"
          THEN /\ Abort("age_groups", "KeyError")
               /\ UNCHANGED <<ag_vars, calendar_year, user_config>>
          ELSE LET r == generate_age_group_data(
                            user_config.takken,
                            user_config.first_registration_year)
               IN  /\ age_group_data' = r.data
                   /\ user_config' = [user_config EXCEPT !.takken = r.data]
                   /\ first_registration_year' =
                         user_config.first_registration_year
                   /\ ag_result' = r.outcome
                   /\ ag_pc' = IF r.outcome = "returned" THEN "built" ELSE "error"
                   /\ UNCHANGED queries
                   /\ IF r.outcome # "returned"
                         THEN Abort("age_groups", r.outcome)
                                /\ UNCHANGED calendar_year
                       ELSE IF user_config.missing = "calendar_year"
                         THEN Abort("age_groups", "KeyError")
                                /\ UNCHANGED calendar_year
                       ELSE /\ calendar_year' = user_config.calendar_year
                            /\ run_pc' = "presence"
                            /\ UNCHANGED run_error
    /\ UNCHANGED <<ad_vars, heap, weekend_data, templates0, activity_names,
                   all_activities, gm_result, prev_result, presence_data,
                   certificates, new_vars>>

\* lines 329-341: the presence sheet and the first serial number.
RunReadPresenceData ==
    /\ run_pc = "presence"
    /\ \E sheet \in PresenceSheets : presence_data' = sheet
    /\ IF user_config.missing = "next_serial_number"
          THEN Abort("presence", "KeyError")
          ELSE run_pc' = "members" /\ UNCHANGED run_error
    /\ UNCHANGED <<ag_vars, ad_vars, gm_vars, user_config, certificates,
                   new_vars>>

\* lines 343-380: one turn of the loop over the members.
RunMember ==
    /\ run_pc = "members"
    /\ presence_data # <<>>
    /\ \E r \in { generate_activities_for_member(
                      SubSeq(heap, 1, Len(templates0)), FixedMember,
                      presence_data[1], calendar_year, age_group_data,
                      weekend_data, max_age) } :
          /\ member' = FixedMember
          /\ activity_names' = presence_data[1]
          /\ heap' = r.heap
          /\ all_activities' = r.activities
          /\ gm_result' = r.outcome
          /\ prev_result' = gm_result
          /\ IF r.outcome = "returned"
                THEN /\ certificates' = Append(certificates, r.activities)
                     /\ presence_data' = RemainingAfterCertificate(presence_data)
                     /\ UNCHANGED <<run_pc, run_error>>
                ELSE /\ Abort("members", r.outcome)
                     /\ UNCHANGED <<certificates, presence_data>>
    /\ UNCHANGED <<ag_vars, ad_pc, activity, template, full_camp, max_age,
                   ad_result, weekend_data, templates0, calendar_year,
                   user_config, new_vars>>

\* The loop is left and generate_tax_certificates returns.
RunEnd ==
    /\ run_pc = "members"
    /\ presence_data = <<>>
    /\ run_pc' = "done"
    /\ UNCHANGED <<ag_vars, ad_vars, gm_vars, user_config, presence_data,
                   certificates, run_error, new_vars>>

RunNext ==
    \/ RunLoadConfig
    \/ RunReadActivityData
    \/ RunGenerateAgeGroupData
    \/ RunReadPresenceData
    \/ RunMember
    \/ RunEnd

SpecRun == RunInit /\ [][RunNext]_vars

-----------------------------------------------------------------------------
(* Claims about the age-group table builder and the resolver.              *)

\* The position of a group in declaration order.
GroupIndex(data, name) == CHOOSE k \in 1..Len(data) : data[k].name = name

\* The nr_of_years of the groups declared before group k.
YearsBefore(data, k) == SumSeq([j \in 1..(k - 1) |-> data[j].nr_of_years])

\* The groups a registration year qualifies for.
QualifyingGroups(data, y) ==
    {k \in 1..Len(data) : data[k].first_registration_year >= y}

SetMax(S) == CHOOSE x \in S : \A y \in S : y <= x

SetMin(S) == CHOOSE x \in S : \A y \in S : x <= y

\* C1: once generate_age_group_data has returned, the k-th group in declaration
\* order holds first_registration_year = anchor minus the sum of nr_of_years of
\* the groups declared before it; the first group holds the anchor itself.
C1_FirstRegistrationYear ==
    ag_pc = "built" =>
        \A k \in 1..Len(age_group_data) :
            /\ age_group_data[k].has_first
            /\ age_group_data[k].first_registration_year
                 = first_registration_year - YearsBefore(age_group_data, k)

C1_Witness ==
    /\ ag_pc = "built"
    /\ Len(age_group_data) >= 3
    /\ age_group_data[1].nr_of_years # age_group_data[2].nr_of_years
    /\ age_group_data[3].first_registration_year
         = first_registration_year - age_group_data[1].nr_of_years
                                   - age_group_data[2].nr_of_years

\* C2: every call of determine_age_group returns the last group in declaration
\* order (the first one met in the reverse scan) whose first_registration_year
\* is greater than or equal to the registration year, so a year equal to a
\* threshold resolves to that group; when no group qualifies it returns None.
C2_ReverseScanFirstMatch ==
    \A q \in queries :
        LET S == QualifyingGroups(age_group_data, q[1])
        IN  q[2] =
                IF S = {} THEN None ELSE age_group_data[SetMax(S)].name

C2_Witness ==
    /\ Len(age_group_data) >= 2
    /\ \E q \in queries :
          /\ q[1] = age_group_data[2].first_registration_year
          /\ q[2] = age_group_data[2].name
    /\ \E q \in queries : q[2] = None

\* C3: for two calls on the same table with registration years r1 < r2 that
\* both resolve to a group, the group of r1 is not declared before (is not
\* younger than) the group of r2.
C3_ResolverMonotonic ==
    \A p, q \in queries :
        (/\ p[1] < q[1]
         /\ p[2] # None
         /\ q[2] # None)
        => GroupIndex(age_group_data, p[2])
             >= GroupIndex(age_group_data, q[2])

C3_Witness ==
    \E p, q \in queries :
        /\ p[1] < q[1]
        /\ p[2] # None
        /\ q[2] # None
        /\ GroupIndex(age_group_data, p[2])
             > GroupIndex(age_group_data, q[2])

\* The table of scenario 4: three groups with thresholds 2015, 2012, 2009.
Scenario4Table ==
    /\ ag_pc = "built"
    /\ Len(age_group_data) = 3
    /\ age_group_data[1].first_registration_year = 2015
    /\ age_group_data[2].first_registration_year = 2012
    /\ age_group_data[3].first_registration_year = 2009

\* C4 as stated: on the table of scenario 4, registration year 2013 resolves
\* to the second group (B).
C4_Scenario4ReturnsB ==
    Scenario4Table =>
        \A q \in queries :
            q[1] = 2013 => q[2] = age_group_data[2].name

\* C4 amended: on the table of scenario 4 (groups A, B, C with thresholds 2015,
\* 2012, 2009), registration year 2013 resolves to the first group (A), the
\* only one whose threshold is at least 2013.
C4_Scenario4ReturnsA ==
    Scenario4Table =>
        \A q \in queries :
            q[1] = 2013 => q[2] = age_group_data[1].name

C4_Witness ==
    /\ Scenario4Table
    /\ \E q \in queries :
          q[1] = 2013 /\ q[2] = age_group_data[1].name

\* The group's nr_of_years is missing, is not an integer or is not positive.
InvalidGroup(entry) ==
    entry.kind \in {"missing", "nonint"} \/ entry.nr_of_years <= 0

\* C15: when some group's nr_of_years is missing, is not an integer or is
\* less than or equal to 0, generate_age_group_data raises and returns no
\* table: KeyError when the first such group has no nr_of_years, ValueError
\* otherwise.
C15_InvalidNrOfYearsRaises ==
    (/\ ag_pc \in {"built", "error"}
     /\ \E k \in 1..Len(age_group_data) : InvalidGroup(age_group_data[k]))
    => /\ ag_pc = "error"
       /\ LET first == SetMin({k \in 1..Len(age_group_data) :
                                  InvalidGroup(age_group_data[k])})
          IN  ag_result =
                IF age_group_data[first].kind = "missing"
                    THEN "KeyError" ELSE "ValueError"

\* A group with a negative nr_of_years after a valid group.
C15_Witness ==
    /\ ag_pc = "error"
    /\ ag_result = "ValueError"
    /\ Len(age_group_data) >= 2
    /\ ~InvalidGroup(age_group_data[1])
    /\ age_group_data[2].kind = "int"
    /\ age_group_data[2].nr_of_years < 0

\* C16: generate_age_group_data has no side effect on its argument: over a
\* call, whether it returns or raises, the caller's mapping keeps exactly
\* the entries it held before the call.
C16_InputMappingUnchanged ==
    [][(ag_pc = "config" /\ ag_pc' # "config")
          => age_group_data' = age_group_data]_vars

-----------------------------------------------------------------------------
(* Claims about the activity adapter.                                      *)

\* The age in whole years on a day: the birthdays that have come by then.
CalendarAge(date_of_birth, on) ==
    Cardinality({ y \in (date_of_birth.year + 1)..on.year :
        \/ y < on.year
        \/ date_of_birth.month < on.month
        \/ date_of_birth.month = on.month /\ date_of_birth.day <= on.day })

\* The call of the adapter has returned an Activity.
Adapted == ad_pc = "returned" /\ ad_result = "activity"

\* C5: whenever member.discount is true and the adapter returns an activity,
\* the returned total_price is round(template total_price / 3.0, 2), for
\* every full_camp and with or without truncation of the end date.
C5_DiscountIsOneThird ==
    (Adapted /\ member.discount) =>
        activity.total_price = RoundDiv(template.total_price, 3)

\* C6: every Activity the adapter returns has number_of_days equal to
\* (end_date - start_date).days + 1 and price_per_day equal to
\* round(total_price / number_of_days, 2).
C6_DerivedFieldsConsistent ==
    Adapted =>
        /\ activity.number_of_days
             = DaysBetween(activity.start_date, activity.end_date) + 1
        /\ activity.number_of_days # 0
        /\ activity.price_per_day
             = RoundDiv(activity.total_price, activity.number_of_days)

C8_FullCampNoDiscountUnchanged ==
    (ad_pc = "returned" /\ ~member.discount /\ full_camp
        /\ CalendarAge(member.date_of_birth, template.start_date) < max_age
        /\ CalendarAge(member.date_of_birth, template.end_date) < max_age)
    => /\ ad_result = "activity"
       /\ activity = template
       /\ (template.start_date = Date(2024, 2, 23)
             /\ template.end_date = Date(2024, 2, 25)
             /\ template.total_price = 5000)
          => (activity.number_of_days = 3
                /\ activity.price_per_day = 1667
                /\ activity.total_price = 5000)
       /\ (template.start_date = Date(2024, 7, 3)
             /\ template.end_date = Date(2024, 7, 15))
          => activity.number_of_days = 13

\* The member of test_data.py turns 13 inside the activity of scenario 2.
C8_Witness ==
    /\ Adapted
    /\ ~member.discount
    /\ full_camp
    /\ max_age = 14
    /\ member.date_of_birth = Date(2011, 7, 7)
    /\ template.start_date = Date(2024, 7, 3)
    /\ template.end_date = Date(2024, 7, 15)
    /\ CalendarAge(member.date_of_birth, template.start_date) = 12
    /\ CalendarAge(member.date_of_birth, template.end_date) = 13
    /\ activity.number_of_days = 13
    /\ activity = template

\* The calendar day before d.
DayBefore(d) ==
    IF d.day > 1 THEN Date(d.year, d.month, d.day - 1)
    ELSE IF d.month > 1
        THEN Date(d.year, d.month - 1, DaysInMonth(d.year, d.month - 1))
    ELSE Date(d.year - 1, 12, 31)

\* The start_date the age is checked on last: the template's, moved past the
\* precamp when the camp was not attended in full.
CheckedStart ==
    IF full_camp THEN template.start_date
    ELSE AddDays(template.start_date, PrecampDays)

\* C17: when the member is younger than max_age on the (possibly shifted)
\* start_date and has reached max_age by the end_date, the adapter returns
\* an activity whose end_date is the day before the member's birthday in the
\* end_date's year, for every birth date, birthdays on the first day of a
\* month included, with number_of_days and total_price recalculated from it.
C17_EndDateAgeOut ==
    (/\ ad_pc = "returned"
     /\ CalendarAge(member.date_of_birth, CheckedStart) < max_age
     /\ CalendarAge(member.date_of_birth, template.end_date) >= max_age)
    => /\ ad_result = "activity"
       /\ activity.end_date =
            DayBefore(Date(template.end_date.year,
                           member.date_of_birth.month,
                           member.date_of_birth.day))
       /\ activity.number_of_days
            = DaysBetween(activity.start_date, activity.end_date) + 1
       /\ activity.total_price
            = activity.price_per_day * activity.number_of_days

\* C18: when full_camp is false and the member is younger than max_age on
\* the template's start_date, the adapter moves start_date forward by exactly
\* 2 days; if the member has reached max_age on the moved start_date it
\* returns None; otherwise number_of_days is counted from the moved range and
\* total_price is price_per_day * number_of_days, price_per_day being the
\* value derived when the template was constructed.
C18_PartialAttendance ==
    (/\ ad_pc = "returned"
     /\ ~full_camp
     /\ CalendarAge(member.date_of_birth, template.start_date) < max_age)
    => /\ activity.start_date = AddDays(template.start_date, 2)
       /\ IF CalendarAge(member.date_of_birth, activity.start_date) >= max_age
            THEN ad_result = "none"
            ELSE /\ ad_result # "none"
                 /\ activity.price_per_day = template.price_per_day
                 /\ activity.number_of_days
                      = DaysBetween(activity.start_date, activity.end_date) + 1
                 /\ activity.total_price
                      = template.price_per_day * activity.number_of_days

\* The camp of test_data.py without its precamp: 11 days at the price per
\* day of the 13.
C18_Witness ==
    /\ Adapted
    /\ ~full_camp
    /\ template.start_date = Date(2024, 7, 3)
    /\ template.end_date = Date(2024, 7, 15)
    /\ template.number_of_days = 13
    /\ activity.start_date = Date(2024, 7, 5)
    /\ activity.end_date = template.end_date
    /\ activity.number_of_days = 11
    /\ activity.price_per_day = template.price_per_day
    /\ activity.total_price = 11 * template.price_per_day

\* C21: every Activity the adapter returns from a template whose start_date
\* is not after its end_date has number_of_days >= 1, whatever full_camp is
\* and whether or not the end date was truncated.
C21_AtLeastOneDay ==
    (Adapted /\ DaysBetween(template.start_date, template.end_date) >= 0)
    => activity.number_of_days >= 1

\* C23: for every Activity the adapter returns, the member is younger than
\* max_age on the returned start_date and on the returned end_date,
\* activities that span the turn of a year included.
C23_YoungerThanMaxAgeThroughout ==
    Adapted =>
        /\ CalendarAge(member.date_of_birth, activity.start_date) < max_age
        /\ CalendarAge(member.date_of_birth, activity.end_date) < max_age

\* C24: adaptation only shrinks the billable period: for every Activity the
\* adapter returns from a template whose start_date is not after its
\* end_date, the returned start_date is not before the template's, the
\* returned end_date is not after the template's, and number_of_days is not
\* above the template's.
C24_PeriodOnlyShrinks ==
    (Adapted /\ DaysBetween(template.start_date, template.end_date) >= 0)
    => /\ DaysBetween(template.start_date, activity.start_date) >= 0
       /\ DaysBetween(activity.end_date, template.end_date) >= 0
       /\ activity.number_of_days <= template.number_of_days

-----------------------------------------------------------------------------
(* Claims about the constructor of Activity.                               *)

\* C22: constructing an Activity whose start_date is after its end_date is
\* never a fatal error: for every such pair of dates the constructor logs a
\* warning, completes, and leaves an Activity whose number_of_days is not
\* positive.
C22_ReversedDatesNotFatal ==
    (/\ new_result \notin {"idle", "pending"}
     /\ DaysBetween(arguments[1], arguments[2]) < 0)
    => /\ new_result = "constructed"
       /\ "start date is after end date" \in warnings
       /\ new_activity # None
       /\ new_activity.number_of_days <= 0

-----------------------------------------------------------------------------
(* Claims about the member activity aggregator.                            *)

\* The Activity objects a list of references stands for.
Deref(h, refs) == [k \in 1..Len(refs) |-> h[refs[k]]]

\* C9: generate_activities_for_member never changes a template of
\* weekend_data: after every call, returning or raising, and after every
\* sequence of calls, each template holds the start_date, end_date,
\* total_price, number_of_days and price_per_day it was built with, and what a
\* call returns is what it returns on the templates as they were built.
C9_TemplatesNeverMutated ==
    /\ Len(heap) >= Len(templates0)
    /\ \A k \in 1..Len(templates0) : heap[k] = templates0[k]
    /\ gm_result # "pending" =>
          LET r == generate_activities_for_member(
                      templates0, member, activity_names, calendar_year,
                      age_group_data, weekend_data, max_age)
          IN  /\ gm_result = r.outcome
              /\ gm_result = "returned" =>
                    /\ Deref(heap, all_activities.list)
                         = Deref(r.heap, r.activities.list)
                    /\ all_activities.total = r.activities.total

\* A second call has returned activities that adaptation changed, after a
\* call that raised.
C9_Witness ==
    /\ prev_result = "ValueError"
    /\ gm_result = "returned"
    /\ \E k \in 1..Len(all_activities.list) :
          /\ all_activities.list[k] > Len(templates0)
          /\ \A t \in 1..Len(templates0) :
                heap[all_activities.list[k]] # templates0[t]
    /\ \A k \in 1..Len(templates0) : heap[k] = templates0[k]

\* C10: the Activities a call returns has total equal to the sum of
\* total_price over the activities of its list, and the list holds the
\* activities added in the order they were added (each is the copy made for
\* it, and copies are made in attendance order).
C10_TotalIsSumInOrder ==
    gm_result = "returned" =>
        /\ all_activities.total
             = SumSeq([k \in 1..Len(all_activities.list) |->
                          heap[all_activities.list[k]].total_price])
        /\ \A k \in 1..Len(all_activities.list) :
              /\ all_activities.list[k] \in (Len(templates0) + 1)..Len(heap)
              /\ k > 1 => all_activities.list[k - 1] < all_activities.list[k]

\* Two activities with different prices were added and a third was left out.
C10_Witness ==
    /\ gm_result = "returned"
    /\ Len(all_activities.list) = 2
    /\ Len(heap) = Len(templates0) + 3
    /\ heap[all_activities.list[1]].total_price
         # heap[all_activities.list[2]].total_price
    /\ all_activities.total
         = heap[all_activities.list[1]].total_price
             + heap[all_activities.list[2]].total_price

\* What one attended name comes to for the member of the last call, worked out
\* on the templates as they were built: the outcome and the adapted activity.
NameOutcome(name) ==
    LET g == AgeGroupOf(name, member, calendar_year, age_group_data)
    IN  IF g \in {"", None}
            THEN [outcome |-> "ValueError", activity |-> None]
        ELSE IF g \notin DOMAIN weekend_data \/ name \notin DOMAIN weekend_data[g]
            THEN [outcome |-> "KeyError", activity |-> None]
        ELSE adapt_activity_data_to_member(
                templates0[weekend_data[g][name]], member,
                FullCamp(name, g, member, age_group_data), max_age)

\* The outcomes of the attended names of the last call, in attendance order.
NameOutcomes == [k \in 1..Len(activity_names) |-> NameOutcome(activity_names[k])]

\* The adapted activities of the names the member is eligible for, in
\* attendance order.
EligibleActivities ==
    LET kept == SelectSeq(NameOutcomes, LAMBDA r : r.outcome = "activity")
    IN  [k \in 1..Len(kept) |-> kept[k].activity]

\* C11: ineligibility is not an error. When no attended name fails for another
\* reason (every name has a template and the adapter returns an activity or
\* "not eligible" for it), generate_activities_for_member returns, and the
\* returned list is exactly the adapted activities of the names the member is
\* eligible for, in attendance order: the ineligible ones are left out and
\* the ones after them are still processed.
C11_IneligibleSkippedNotRaised ==
    (/\ gm_result # "pending"
     /\ \A k \in 1..Len(activity_names) :
            NameOutcomes[k].outcome \in {"activity", "none"})
    => /\ gm_result = "returned"
       /\ Deref(heap, all_activities.list) = EligibleActivities

\* An activity the member is not eligible for is followed by one that is
\* returned.
C11_Witness ==
    /\ gm_result = "returned"
    /\ \E j, k \in 1..Len(activity_names) :
          /\ j < k
          /\ NameOutcomes[j].outcome = "none"
          /\ NameOutcomes[k].outcome = "activity"
    /\ Len(all_activities.list) >= 1
    /\ Len(all_activities.list) < Len(activity_names)
    /\ Deref(heap, all_activities.list) = EligibleActivities

\* The name carries neither the label of the old nor that of the new year.
NoYearLabel(name) ==
    /\ ~HasYearLabel(name, calendar_year - 1, calendar_year)
    /\ ~HasYearLabel(name, calendar_year, calendar_year + 1)

\* The age group of the name is resolved but has no template for the name.
NoTemplate(name) ==
    LET g == AgeGroupOf(name, member, calendar_year, age_group_data)
    IN  /\ g \notin {"", None}
        /\ g \notin DOMAIN weekend_data \/ name \notin DOMAIN weekend_data[g]

\* The positions of the attended names on which the call cannot go on.
FailingPositions ==
    {k \in 1..Len(activity_names) :
        NameOutcomes[k].outcome \notin {"activity", "none"}}

\* C12: a call whose attended names include one with neither year label, or
\* one whose resolved age group has no template for it, raises and returns no
\* Activities, also when names before it were adapted; when that name is the
\* first the call fails on, a missing label raises ValueError and a missing
\* template raises KeyError.
C12_BadNameIsFatal ==
    (/\ gm_result # "pending"
     /\ \E k \in 1..Len(activity_names) :
            NoYearLabel(activity_names[k]) \/ NoTemplate(activity_names[k]))
    => /\ gm_result \in {"ValueError", "KeyError"}
       /\ all_activities = None
       /\ LET first == activity_names[SetMin(FailingPositions)]
          IN  /\ NoYearLabel(first) => gm_result = "ValueError"
              /\ NoTemplate(first) => gm_result = "KeyError"

\* A name without a template comes after a name that was adapted.
C12_Witness ==
    /\ gm_result = "KeyError"
    /\ all_activities = None
    /\ \E j, k \in 1..Len(activity_names) :
          /\ j < k
          /\ NameOutcomes[j].outcome = "activity"
          /\ NoTemplate(activity_names[k])
          /\ k = SetMin(FailingPositions)
    /\ Len(heap) > Len(templates0)

\* The name has a template and adapt_activity_data_to_member raises on it:
\* the truncation of the end date builds a date that does not exist.
AdapterRaises(name) ==
    /\ ~NoYearLabel(name)
    /\ AgeGroupOf(name, member, calendar_year, age_group_data) # None
    /\ ~NoTemplate(name)
    /\ NameOutcome(name).outcome = "ValueError"

\* C13: an error raised inside adapt_activity_data_to_member leaves it as a
\* ValueError, the only error the adapter has, and goes out of
\* generate_activities_for_member: a call with an attended name the adapter
\* raises on returns no Activities, partial or complete, and ends in
\* ValueError when that name is the first the call fails on.
C13_AdapterErrorPropagates ==
    (/\ gm_result # "pending"
     /\ \E k \in 1..Len(activity_names) : AdapterRaises(activity_names[k]))
    => /\ gm_result # "returned"
       /\ all_activities = None
       /\ AdapterRaises(activity_names[SetMin(FailingPositions)])
            => gm_result = "ValueError"

\* The adapter raises on a name that comes after one it adapted: the member
\* was born on the first day of a month and reaches max_age inside the
\* activity, so the truncated end date has day 0.
C13_Witness ==
    /\ gm_result = "ValueError"
    /\ all_activities = None
    /\ member.date_of_birth.day = 1
    /\ \E j, k \in 1..Len(activity_names) :
          /\ j < k
          /\ NameOutcomes[j].outcome = "activity"
          /\ AdapterRaises(activity_names[k])
          /\ k = SetMin(FailingPositions)
    /\ Len(heap) >= Len(templates0) + 2

\* The copies made by the last call, in the order they were made: one for
\* each attended name the call got to with a template.
Copies == SubSeq(heap, Len(templates0) + 1, Len(heap))

\* The registration year the age group of a name is resolved with.
ResolvingYear(name) ==
    IF HasYearLabel(name, calendar_year - 1, calendar_year)
        THEN member.registration_year
        ELSE member.registration_year - 1

\* C19: the k-th copy a call hands to the adapter is made from the template
\* that weekend_data holds for the k-th attended name under the age group the
\* resolver returns for member.registration_year when the name has the label
\* "{year-1}/{year}", and for member.registration_year - 1 when it has the
\* label "{year}/{year+1}": the object is what the adapter makes of that
\* template.
C19_WindowSelectsAgeGroup ==
    gm_result # "pending" =>
        \A k \in 1..Len(Copies) :
            LET name == activity_names[k]
                g == determine_age_group(age_group_data, ResolvingYear(name))
            IN  /\ ~NoYearLabel(name)
                /\ g \in DOMAIN weekend_data
                /\ name \in DOMAIN weekend_data[g]
                /\ Copies[k] \in
                      { adapt_activity_data_to_member(
                            templates0[weekend_data[g][name]], member, f,
                            max_age).activity : f \in BOOLEAN }

\* A call with a name of each window whose age groups differ.
C19_Witness ==
    /\ gm_result = "returned"
    /\ Len(Copies) >= 2
    /\ \E j, k \in 1..Len(Copies) :
          /\ HasYearLabel(activity_names[j], calendar_year - 1, calendar_year)
          /\ HasYearLabel(activity_names[k], calendar_year, calendar_year + 1)
          /\ determine_age_group(age_group_data, member.registration_year)
               # determine_age_group(age_group_data, member.registration_year - 1)
          /\ Copies[j].price_per_day =
               templates0[weekend_data[determine_age_group(
                   age_group_data, member.registration_year)][activity_names[j]]]
                 .price_per_day
          /\ Copies[k].price_per_day =
               templates0[weekend_data[determine_age_group(
                   age_group_data, member.registration_year - 1)][activity_names[k]]]
                 .price_per_day

\* The precamp rule as stated: the name has "kamp" in it, the age group is
\* jonggivers or givers, and the resolver returns that group for the
\* registration year before as well.
MissesPrecamp(name) ==
    LET g == determine_age_group(age_group_data, ResolvingYear(name))
    IN  /\ name.kamp
        /\ g \in {"jonggivers", "givers"}
        /\ g = determine_age_group(age_group_data, member.registration_year - 1)

\* C20: the adapter is passed full_camp = false exactly when the precamp
\* rule holds for the name. For a member younger than max_age on the
\* template's start_date the flag shows in the copy: its start_date is the
\* template's moved by 2 days when the rule holds and the template's own
\* otherwise.
C20_PrecampRule ==
    gm_result # "pending" =>
        \A k \in 1..Len(Copies) :
            LET name == activity_names[k]
                g == determine_age_group(age_group_data, ResolvingYear(name))
                t == templates0[weekend_data[g][name]]
            IN  CalendarAge(member.date_of_birth, t.start_date) < max_age
                => Copies[k].start_date =
                     IF MissesPrecamp(name)
                        THEN AddDays(t.start_date, 2) ELSE t.start_date

\* A camp without the precamp for a jonggiver or giver whose registration
\* year before resolves to the same group, next to an activity attended in
\* full.
C20_Witness ==
    /\ gm_result = "returned"
    /\ \E j, k \in 1..Len(Copies) :
          /\ MissesPrecamp(activity_names[k])
          /\ Copies[k].start_date = Date(2024, 7, 5)
          /\ CalendarAge(member.date_of_birth, Date(2024, 7, 3)) < max_age
          /\ ~MissesPrecamp(activity_names[j])
          /\ Copies[j].start_date = Date(2024, 2, 23)

-----------------------------------------------------------------------------
(* Claims about a run of generate_tax_certificates.                        *)

\* The run was ended by a configuration error: a key missing from
\* user_config, a group whose nr_of_years is missing or not a positive
\* integer, or an attended name whose age group cannot be determined.
ConfigurationError ==
    /\ run_pc = "aborted"
    /\ \/ run_error.step \in {"config", "activities", "age_groups", "presence"}
       \/ /\ run_error.step = "members"
          /\ run_error.kind = "ValueError"
          /\ AgeGroupOf(activity_names[SetMin(FailingPositions)], member,
                        calendar_year, age_group_data) \in {"", None}

=============================================================================
